---- MODULE Spec2Model ----
(***************************************************************************)
(* Bollinger-band mean-reversion strategy of ch03/algorithms.py.           *)
(*                                                                         *)
(* The state is the strategy's `context` (winners, losers, buy, sell), the *)
(* host's view of the portfolio and of the day's pipeline output, and the  *)
(* observable effects of the most recent callback (order requests,         *)
(* record() emissions, the per-position decisions of the risk check).      *)
(* Each callback of the source is one action.                              *)
(*                                                                         *)
(* Prices are integers in half-dollar units (200 is $100.00, 197 is        *)
(* $98.50), so that the percentages of the source are exact ratios.        *)
(* A float is the pair <<n, d>> with d >= 0: the ratio n/d when d > 0,     *)
(* and for d = 0 what IEEE-754 division gives: +inf (n > 0), -inf (n < 0), *)
(* NaN (n = 0).                                                            *)
(***************************************************************************)
EXTENDS Integers, Sequences, FiniteSets

\* ---------------------------------------------------------------- settings
\* context.TRADE_SIZE, context.MIN_PROFIT_PERCENT, context.MAX_LOSS_PERCENT
TRADE_SIZE == 100000
MIN_PROFIT_PERCENT == 1
MAX_LOSS_PERCENT == 1
\* BollingerBands(window_length=22, k=2, ...)
BAND_K == 2
\* context.NUM_SYMBOLS
NUM_SYMBOLS == 10
\* tech_sector.eq(311)
SECTOR_CODE == 311

\* ------------------------------------------------------------------ bounds
\* handle_data is not invoked any more once winners + losers reached MaxCount.
MaxCount == 100
\* The instruments the host knows are numbered 1..NumInstruments.
NumInstruments == 12

\* ------------------------------------------------------------ input domains
\* Security identifiers (sids); the pipeline index lists them in this order.
\* These are the securities whose close can leave the band and that trade.
Securities == {1, 2}
\* Every instrument of the host; the others close on their lower band.
Instruments == 1..NumInstruments
\* The members Q500US can have on a day.
BaseUniverses == {Instruments, Instruments \ {1}}
\* The instruments Morningstar can classify as technology on a day; the others
\* carry OtherSector.
TechSets == {Instruments, Securities, {}}
OtherSector == 102
\* Latest market capitalisations: rising or falling with the sid.
MarketCaps == {[i \in Instruments |-> i],
               [i \in Instruments |-> NumInstruments + 1 - i]}
\* A missing price: data.current gives NaN when a security never traded.
NaN == -1
\* Current prices a bar can carry (half-dollars), zero and missing included.
BarPrices == {NaN, 0, 197, 199, 204}
\* Latest closes of the pipeline (half-dollars).
ClosePrices == {0, 190, 200, 230}
\* Rolling mean and standard deviation behind the bands (half-dollars).
Middles == {210}
Devs == {5}
\* Share counts of a position; 0 is a position the host still lists.
Amounts == {-50, 0, 50}
\* What data.current returns: a Python float or a numpy float64.
ScalarTypes == {"float", "float64"}
\* Fill prices (half-dollars).
CostBases == {200}

VARIABLES
  winners,       \* context.winners
  losers,        \* context.losers
  assigned,      \* context.buy / context.sell exist (set by before_trading_start)
  buy,           \* context.buy  : sequence of securities
  sell,          \* context.sell : sequence of securities
  pipe,          \* pipe_bbands of before_trading_start, when that callback ran last
  fundamentals,  \* the base universe, sectors and market caps that pipeline run saw
  positions,     \* context.portfolio.positions : security -> [amount, cost_basis]
  openOrders,    \* order requests the host has accepted and not yet filled
  session,       \* "closed" | "open" : the host's trading-day clock
  lastOp,        \* the callback (or host step) that ran last
  data,          \* prices data.current served to the last check_profit_loss
  orders,        \* order requests issued by the last callback, in order
  trace,         \* per-position decisions of the last check_profit_loss
  recorded,      \* record() emissions of the last callback, in order
  raised,        \* the last callback ended with ZeroDivisionError
  flattened,     \* securities flattened since the last before_trading_start
  entered,       \* generate_entries ran since the last before_trading_start
  rerun,         \* the last callback was a further generate_entries of the same day
  heldAfterGen,  \* securities holding a position after the day's last generate_entries
  heldBefore     \* heldAfterGen as it was when the last callback, a rerun, began

vars == <<winners, losers, assigned, buy, sell, pipe, fundamentals, positions, openOrders,
          session, lastOp, data, orders, trace, recorded, raised,
          flattened, entered, rerun, heldAfterGen, heldBefore>>

\* ------------------------------------------------------------------ floats
FDiv(n, d) == IF d = NaN \/ n = NaN THEN <<0, 0>> ELSE <<n, d>>
FNeg(x) == <<-x[1], x[2]>>
\* x > t for an integer t: false for NaN and -inf, true for +inf.
FGt(x, t) == IF x[2] = 0 THEN x[1] > 0 ELSE x[1] > t * x[2]
Abs(n) == IF n < 0 THEN -n ELSE n

\* The elements of S as a sequence in increasing order (DataFrame index order).
ToList(S) == CHOOSE f \in [1..Cardinality(S) -> S] :
               \A i, j \in 1..Cardinality(S) : i < j => f[i] < f[j]
Elems(seq) == {seq[i] : i \in 1..Len(seq)}
\* Every order in which a dict of the given keys can be iterated.
Iterations(S) == {f \in [1..Cardinality(S) -> S] :
                    \A i, j \in 1..Cardinality(S) : i # j => f[i] # f[j]}
EmptyMap == [s \in {} |-> 0]

\* ---------------------------------------------------------------- pipeline
\* buy_percent_factor = ((lower_band_factor - price)*100)/price
buy_percent_factor(lower_band, price) == FDiv((lower_band - price) * 100, price)
\* sell_percent_factor = ((price - upper_band_factor)*100)/price
sell_percent_factor(upper_band, price) == FDiv((price - upper_band) * 100, price)
\* Mutant: the buy filter with >= in place of >.
buy_filter_NonStrict(buy_percent) == ~FGt(FNeg(buy_percent), 0)

\* buy_filter = buy_percent_factor > 0
buy_filter(buy_percent) == FGt(buy_percent, 0)
\* sell_filter = sell_percent_factor > 0
sell_filter(sell_percent) == FGt(sell_percent, 0)

\* One row of the pipeline output for a close, a rolling mean and a deviation.
PipelineRow(price, middle, dev) ==
  LET lower_band == middle - BAND_K * dev
      upper_band == middle + BAND_K * dev
  IN [buy_percent  |-> buy_percent_factor(lower_band, price),
      lower_band   |-> lower_band,
      buy          |-> buy_filter(buy_percent_factor(lower_band, price)),
      price        |-> price,
      sell         |-> sell_filter(sell_percent_factor(upper_band, price)),
      upper_band   |-> upper_band,
      sell_percent |-> sell_percent_factor(upper_band, price)]

Rows == {PipelineRow(p, m, d) : p \in ClosePrices, m \in Middles, d \in Devs}
\* The row of an instrument that closes on its lower band.
QuietRow == PipelineRow(200, 210, 5)

\* What the host knows of the instruments on a day.
Fundamentals ==
  {[base |-> b,
    sector |-> [i \in Instruments |-> IF i \in tech THEN SECTOR_CODE ELSE OtherSector],
    market_cap |-> c] : b \in BaseUniverses, tech \in TechSets, c \in MarketCaps}
NoFundamentals == [base |-> {}, sector |-> EmptyMap, market_cap |-> EmptyMap]

\* tech_universe_filter = base_universe_filter & tech_sector.eq(311)
tech_universe_filter(f) == {i \in f.base : f.sector[i] = SECTOR_CODE}

\* Mutant: the ranking taken over every instrument, the mask ignored.
top_Unmasked(n, market_cap, mask) ==
  {i \in DOMAIN market_cap :
     Cardinality({j \in DOMAIN market_cap : market_cap[j] > market_cap[i]}) < n}

\* mkt_cap_filter.top(N, mask=...): the N members of the mask of largest cap.
top(n, market_cap, mask) ==
  {i \in mask : Cardinality({j \in mask : market_cap[j] > market_cap[i]}) < n}

\* top_mkt_cap_tech_filter, the screen of the pipeline.
top_mkt_cap_tech_filter(f) == top(NUM_SYMBOLS, f.market_cap, tech_universe_filter(f))

\* The outputs the pipeline can give on a day: one row per screened instrument.
PipelineOutputs(f) ==
  {[s \in top_mkt_cap_tech_filter(f) |-> IF s \in Securities THEN g[s] ELSE QuietRow] :
     g \in [top_mkt_cap_tech_filter(f) \cap Securities -> Rows]}

\* ------------------------------------------------------------ risk decision
\* price_diff_percent = ((current_price - position.cost_basis)*100)/current_price
price_diff_percent(current_price, cost_basis) ==
  IF current_price = NaN THEN <<0, 0>>
  ELSE FDiv((current_price - cost_basis) * 100, current_price)

\* Mutant: every position that is not long is treated as short.
profit_NotLong(amount, pdp) ==
  \/ amount > 0 /\ FGt(pdp, MIN_PROFIT_PERCENT)
  \/ ~(amount > 0) /\ FGt(FNeg(pdp), MIN_PROFIT_PERCENT)

\* profit = (amount > 0 and pdp > MIN_PROFIT_PERCENT) or (amount < 0 and -pdp > ...)
profit(amount, pdp) ==
  \/ amount > 0 /\ FGt(pdp, MIN_PROFIT_PERCENT)
  \/ amount < 0 /\ FGt(FNeg(pdp), MIN_PROFIT_PERCENT)

\* loss = (amount > 0 and -pdp > MAX_LOSS_PERCENT) or (amount < 0 and pdp > ...)
loss(amount, pdp) ==
  \/ amount > 0 /\ FGt(FNeg(pdp), MAX_LOSS_PERCENT)
  \/ amount < 0 /\ FGt(pdp, MAX_LOSS_PERCENT)

\* Mutants of the flatten condition: one or both list tests dropped.
flatten_NoExclusion(security, buyList, sellList, p, l) == p \/ l
flatten_SellListOnly(security, buyList, sellList, p, l) ==
  security \notin Elems(sellList) /\ (p \/ l)
flatten_BuyListOnly(security, buyList, sellList, p, l) ==
  security \notin Elems(buyList) /\ (p \/ l)

\* if security not in context.buy and security not in context.sell and (profit or loss)
flatten(security, buyList, sellList, p, l) ==
  security \notin Elems(buyList) /\ security \notin Elems(sellList) /\ (p \/ l)

\* The division of line 109 raises ZeroDivisionError on Python floats.
DivisionRaises(kind, current_price) == kind = "float" /\ current_price = 0

Order(security, fn, target) == [security |-> security, fn |-> fn, target |-> target]

\* Mutant: the ratio recorded without the `if context.losers` test.
record_vars_Unguarded(w, l) ==
  <<[name |-> "Winners", num |-> w, den |-> 1],
    [name |-> "Losers", num |-> l, den |-> 1],
    [name |-> "WinLoseRatio", num |-> w, den |-> l]>>

\* record_vars: Winners, Losers and, when losers is non-zero, their ratio.
record_vars(w, l) ==
  <<[name |-> "Winners", num |-> w, den |-> 1],
    [name |-> "Losers", num |-> l, den |-> 1]>>
  \o (IF l # 0 THEN <<[name |-> "WinLoseRatio", num |-> w, den |-> l]>> ELSE <<>>)

\* Mutants: the increment without abs().
add_winners_Signed(w, amount) == w + amount * MIN_PROFIT_PERCENT
add_losers_Signed(l, amount) == l + amount * MAX_LOSS_PERCENT

\* context.winners += abs(position.amount * context.MIN_PROFIT_PERCENT)
add_winners(w, amount) == w + Abs(amount * MIN_PROFIT_PERCENT)
\* context.losers += abs(position.amount * context.MAX_LOSS_PERCENT)
add_losers(l, amount) == l + Abs(amount * MAX_LOSS_PERCENT)

\* One pass of the loop body of check_profit_loss for `security`, from the
\* accumulated effects `acc` of the earlier passes.
CheckPosition(security, bar, kind, acc) ==
  LET position == positions[security]
      current_price == bar[security]
      pdp == price_diff_percent(current_price, position.cost_basis)
      p == profit(position.amount, pdp)
      l == loss(position.amount, pdp)
      f == flatten(security, buy, sell, p, l)
      w1 == IF f /\ p THEN add_winners(acc.winners, position.amount) ELSE acc.winners
      l1 == IF f /\ ~p THEN add_losers(acc.losers, position.amount) ELSE acc.losers
  IN IF DivisionRaises(kind, current_price)
     THEN [acc EXCEPT !.raised = TRUE]
     ELSE [winners  |-> w1,
           losers   |-> l1,
           orders   |-> IF f THEN Append(acc.orders,
                                         Order(security, "order_target_percent", 0))
                        ELSE acc.orders,
           recorded |-> IF f THEN acc.recorded \o record_vars(w1, l1)
                        ELSE acc.recorded,
           trace    |-> Append(acc.trace,
                               [security |-> security, flatten |-> f,
                                profit |-> p, loss |-> l,
                                winners0 |-> acc.winners, losers0 |-> acc.losers,
                                winners1 |-> w1, losers1 |-> l1]),
           raised   |-> FALSE]

\* for security in context.portfolio.positions: ... ; an exception ends the loop.
RECURSIVE CheckLoop(_, _, _, _, _)
CheckLoop(iter, i, bar, kind, acc) ==
  IF i > Len(iter) \/ acc.raised THEN acc
  ELSE CheckLoop(iter, i + 1, bar, kind, CheckPosition(iter[i], bar, kind, acc))

check_profit_loss(iter, bar, kind) ==
  CheckLoop(iter, 1, bar, kind,
            [winners |-> winners, losers |-> losers, orders |-> <<>>,
             recorded |-> <<>>, trace |-> <<>>, raised |-> FALSE])

\* ------------------------------------------------------------------ actions
Init ==
  /\ winners = 0
  /\ losers = 0
  /\ assigned = FALSE
  /\ buy = <<>>
  /\ sell = <<>>
  /\ pipe = EmptyMap
  /\ fundamentals = NoFundamentals
  /\ positions = EmptyMap
  /\ openOrders = {}
  /\ session = "closed"
  /\ lastOp = "initialize"
  /\ data = EmptyMap
  /\ orders = <<>>
  /\ trace = <<>>
  /\ recorded = <<>>
  /\ raised = FALSE
  /\ flattened = {}
  /\ entered = FALSE
  /\ rerun = FALSE
  /\ heldAfterGen = {}
  /\ heldBefore = {}

\* Mutant: both lists take every row that has either flag set.
SignalList_AnyFlag(out, column) ==
  ToList({s \in DOMAIN out : out[s].buy \/ out[s].sell})

\* The lists of before_trading_start: the index of the rows whose flag is set.
SignalList(out, column) ==
  ToList({s \in DOMAIN out : IF column = "buy" THEN out[s].buy ELSE out[s].sell})

\* Mutant: a recompute that reads the pipeline and assigns neither list.
before_trading_start_NoAssign ==
  /\ session = "closed"
  /\ \E f \in Fundamentals :
     \E out \in PipelineOutputs(f) :
       /\ fundamentals' = f
       /\ pipe' = out
  /\ session' = "open"
  /\ lastOp' = "before_trading_start"
  /\ data' = EmptyMap
  /\ orders' = <<>>
  /\ trace' = <<>>
  /\ recorded' = <<>>
  /\ raised' = FALSE
  /\ flattened' = {}
  /\ entered' = FALSE
  /\ rerun' = FALSE
  /\ heldAfterGen' = {}
  /\ heldBefore' = {}
  /\ UNCHANGED <<winners, losers, assigned, buy, sell, positions, openOrders>>

\* before_trading_start(context, data): the host calls it before each session.
before_trading_start ==
  /\ session = "closed"
  /\ \E f \in Fundamentals :
     \E out \in PipelineOutputs(f) :
       /\ fundamentals' = f
       /\ pipe' = out
       /\ buy' = SignalList(out, "buy")
       /\ sell' = SignalList(out, "sell")
  /\ assigned' = TRUE
  /\ session' = "open"
  /\ lastOp' = "before_trading_start"
  /\ data' = EmptyMap
  /\ orders' = <<>>
  /\ trace' = <<>>
  /\ recorded' = <<>>
  /\ raised' = FALSE
  /\ flattened' = {}
  /\ entered' = FALSE
  /\ rerun' = FALSE
  /\ heldAfterGen' = {}
  /\ heldBefore' = {}
  /\ UNCHANGED <<winners, losers, positions, openOrders>>

\* Mutant: the entry loops without the `not in context.portfolio.positions` test.
EntryOrders_Unguarded(list, target) ==
  [i \in 1..Len(list) |-> Order(list[i], "order_target_value", target)]

\* The entry orders of generate_entries, in the order the two loops issue them.
EntryOrders(list, target) ==
  LET pick(s) == s \notin DOMAIN positions
  IN [i \in 1..Len(SelectSeq(list, pick)) |->
        Order(SelectSeq(list, pick)[i], "order_target_value", target)]

\* Mutant: an entry step that consumes the lists it has served.
generate_entries_Consuming ==
  /\ session = "open"
  /\ orders' = EntryOrders(buy, TRADE_SIZE) \o EntryOrders(sell, -TRADE_SIZE)
  /\ openOrders' = openOrders \cup Elems(orders')
  /\ buy' = <<>>
  /\ sell' = <<>>
  /\ lastOp' = "generate_entries"
  /\ data' = EmptyMap
  /\ trace' = <<>>
  /\ recorded' = <<>>
  /\ raised' = FALSE
  /\ entered' = TRUE
  /\ rerun' = entered
  /\ pipe' = EmptyMap
  /\ fundamentals' = NoFundamentals
  /\ heldAfterGen' = DOMAIN positions
  /\ heldBefore' = heldAfterGen
  /\ UNCHANGED <<winners, losers, assigned, positions, session, flattened>>

\* generate_entries(context, data): scheduled 30 minutes after the open.
generate_entries ==
  /\ session = "open"
  /\ orders' = EntryOrders(buy, TRADE_SIZE) \o EntryOrders(sell, -TRADE_SIZE)
  /\ openOrders' = openOrders \cup Elems(orders')
  /\ lastOp' = "generate_entries"
  /\ data' = EmptyMap
  /\ trace' = <<>>
  /\ recorded' = <<>>
  /\ raised' = FALSE
  /\ entered' = TRUE
  /\ rerun' = entered
  /\ pipe' = EmptyMap
  /\ fundamentals' = NoFundamentals
  /\ heldAfterGen' = DOMAIN positions
  /\ heldBefore' = heldAfterGen
  /\ UNCHANGED <<winners, losers, assigned, buy, sell, positions, session,
                 flattened>>

\* The scalar type decides the outcome only when some price of the bar is zero.
KindsThatMatter(bar) ==
  IF \E s \in DOMAIN bar : bar[s] = 0 THEN ScalarTypes ELSE {"float64"}

\* handle_data(context, data): every minute of the session; it calls
\* check_profit_loss, which iterates the positions in the dict's order.
handle_data ==
  /\ session = "open"
  /\ winners + losers < MaxCount
  /\ \E bar \in [DOMAIN positions -> BarPrices] :
     \E kind \in KindsThatMatter(bar), iter \in Iterations(DOMAIN positions) :
       \E r \in {check_profit_loss(iter, bar, kind)} :
          /\ winners' = r.winners
          /\ losers' = r.losers
          /\ orders' = r.orders
          /\ recorded' = r.recorded
          /\ trace' = r.trace
          /\ raised' = r.raised
          /\ data' = bar
          /\ openOrders' = openOrders \cup Elems(r.orders)
          /\ flattened' = flattened \cup {r.orders[i].security : i \in 1..Len(r.orders)}
  /\ lastOp' = "handle_data"
  /\ pipe' = EmptyMap
  /\ fundamentals' = NoFundamentals
  /\ rerun' = FALSE
  /\ heldBefore' = {}
  /\ UNCHANGED <<assigned, buy, sell, positions, session, entered, heldAfterGen>>

\* The host fills an open order: an entry order opens a position, a flatten
\* order closes it (the host drops the position or keeps it with amount 0).
Fill ==
  /\ session = "open"
  /\ \E o \in openOrders :
       /\ openOrders' = openOrders \ {o}
       /\ \/ /\ o.target # 0
             /\ o.security \notin DOMAIN positions
             /\ \E a \in Amounts \ {0}, c \in CostBases :
                  /\ (a > 0) = (o.target > 0)
                  /\ positions' = [s \in DOMAIN positions \cup {o.security} |->
                                     IF s = o.security
                                     THEN [amount |-> a, cost_basis |-> c]
                                     ELSE positions[s]]
          \/ /\ o.target = 0
             /\ o.security \in DOMAIN positions
             /\ \/ positions' = [s \in DOMAIN positions \ {o.security} |-> positions[s]]
                \/ positions' = [positions EXCEPT ![o.security].amount = 0]
  /\ lastOp' = "fill"
  /\ data' = EmptyMap
  /\ orders' = <<>>
  /\ trace' = <<>>
  /\ recorded' = <<>>
  /\ raised' = FALSE
  /\ pipe' = EmptyMap
  /\ fundamentals' = NoFundamentals
  /\ rerun' = FALSE
  /\ heldBefore' = {}
  /\ UNCHANGED <<winners, losers, assigned, buy, sell, session,
                 flattened, entered, heldAfterGen>>

\* The session ends: the host cancels the orders that are still open, and the
\* day's history is over.
EndOfDay ==
  /\ session = "open"
  /\ session' = "closed"
  /\ openOrders' = {}
  /\ lastOp' = "end_of_day"
  /\ data' = EmptyMap
  /\ orders' = <<>>
  /\ trace' = <<>>
  /\ recorded' = <<>>
  /\ raised' = FALSE
  /\ pipe' = EmptyMap
  /\ fundamentals' = NoFundamentals
  /\ flattened' = {}
  /\ entered' = FALSE
  /\ rerun' = FALSE
  /\ heldAfterGen' = {}
  /\ heldBefore' = {}
  /\ UNCHANGED <<winners, losers, assigned, buy, sell, positions>>

Next ==
  \/ before_trading_start
  \/ generate_entries
  \/ handle_data
  \/ Fill
  \/ EndOfDay

Spec == Init /\ [][Next]_vars

\* ------------------------------------------------------------------ claims
Listed(s) == s \in Elems(buy) \cup Elems(sell)
Ordered(s) == \E i \in 1..Len(orders) : orders[i].security = s
Evaluated(s) == \E i \in 1..Len(trace) : trace[i].security = s
\* price_diff_percent > t and -price_diff_percent > t of security s, for a
\* positive current price, by cross-multiplication.
Above(s, t) == (data[s] - positions[s].cost_basis) * 100 > t * data[s]
Below(s, t) == (positions[s].cost_basis - data[s]) * 100 > t * data[s]
InProfit(s) ==
  \/ positions[s].amount > 0 /\ Above(s, MIN_PROFIT_PERCENT)
  \/ positions[s].amount < 0 /\ Below(s, MIN_PROFIT_PERCENT)
InLoss(s) ==
  \/ positions[s].amount > 0 /\ Below(s, MAX_LOSS_PERCENT)
  \/ positions[s].amount < 0 /\ Above(s, MAX_LOSS_PERCENT)
Magnitude(n) == IF n < 0 THEN 0 - n ELSE n

\* C1. Flatten exclusion: after any check_profit_loss, no open position whose
\* security is in the buy list or in the sell list has a flatten order, and the
\* pass of the loop over it left winners and losers as they were, whatever its
\* price.
C1_FlattenExclusion ==
  lastOp = "handle_data" =>
    \A s \in DOMAIN positions :
      Listed(s) =>
        /\ ~Ordered(s)
        /\ \A i \in 1..Len(trace) :
             trace[i].security = s =>
               /\ trace[i].winners1 = trace[i].winners0
               /\ trace[i].losers1 = trace[i].losers0

\* A listed long position is evaluated at a price 2% above its cost basis while
\* another, unlisted, position is flattened in the same invocation.
C1_Witness ==
  /\ lastOp = "handle_data"
  /\ \E s \in DOMAIN positions :
       /\ Listed(s) /\ Evaluated(s)
       /\ positions[s].amount > 0 /\ data[s] = 204
  /\ Len(orders) > 0

\* C2 as stated. A flatten order is issued for an open position iff its security
\* is in neither list and it is in profit or in loss, every position that is not
\* long (amount = 0 included) counting as short. Taken over the invocations that
\* did not raise and the positions with a positive price.
C2_AsStated ==
  (lastOp = "handle_data" /\ ~raised) =>
    \A s \in DOMAIN positions :
      data[s] > 0 =>
        LET isLong == positions[s].amount > 0
            p == \/ isLong /\ Above(s, MIN_PROFIT_PERCENT)
                 \/ ~isLong /\ Below(s, MIN_PROFIT_PERCENT)
            l == \/ isLong /\ Below(s, MAX_LOSS_PERCENT)
                 \/ ~isLong /\ Above(s, MAX_LOSS_PERCENT)
        IN Ordered(s) <=> (~Listed(s) /\ (p \/ l))

\* C2, amended. For every open position the invocation evaluates at a positive
\* price, a flatten order is issued iff the security is in neither list and the
\* position is in profit or in loss, where a long position (amount > 0) is in
\* profit when price_diff_percent > MIN_PROFIT_PERCENT and in loss when
\* -price_diff_percent > MAX_LOSS_PERCENT, a short position (amount < 0) is in
\* profit when -price_diff_percent > MIN_PROFIT_PERCENT and in loss when
\* price_diff_percent > MAX_LOSS_PERCENT; a position with amount = 0 is in
\* neither and is never flattened, and a position the invocation does not
\* evaluate gets no order.
C2_FlattenRule ==
  lastOp = "handle_data" =>
    \A s \in DOMAIN positions :
      /\ (Evaluated(s) /\ data[s] > 0) =>
           (Ordered(s) <=> (~Listed(s) /\ (InProfit(s) \/ InLoss(s))))
      /\ positions[s].amount = 0 => ~Ordered(s)
      /\ ~Evaluated(s) => ~Ordered(s)

\* A short position is flattened for profit at $98.50 while a position of
\* amount 0 at the same price, in neither list, is evaluated and left alone.
C2_Witness ==
  /\ lastOp = "handle_data"
  /\ \E s, z \in DOMAIN positions :
       /\ positions[s].amount < 0 /\ data[s] = 197 /\ Ordered(s)
       /\ positions[z].amount = 0 /\ data[z] = 197
       /\ Evaluated(z) /\ ~Listed(z) /\ ~Ordered(z)

\* C3. Counter update: every pass of the loop that flattens changes exactly one
\* counter, winners by |amount| * MIN_PROFIT_PERCENT on a profit exit and
\* otherwise losers by |amount| * MAX_LOSS_PERCENT; a pass that does not
\* flatten changes neither. The passes chain up to the counters the invocation
\* leaves, and the flattening passes are the ones with an order.
C3_CounterUpdate ==
  lastOp = "handle_data" =>
    /\ \A i \in 1..Len(trace) :
         LET e == trace[i]
             size == Magnitude(positions[e.security].amount)
             \* at a zero price the IEEE quotient is -inf for a positive cost
             \* basis: a short position exits in profit, a long one in loss
             isProfit ==
               IF data[e.security] > 0 THEN InProfit(e.security)
               ELSE \/ positions[e.security].amount < 0
                       /\ positions[e.security].cost_basis > 0
                    \/ positions[e.security].amount > 0
                       /\ positions[e.security].cost_basis < 0
         IN /\ e.flatten <=> Ordered(e.security)
            /\ (e.flatten /\ isProfit) =>
                 /\ e.winners1 = e.winners0 + size * MIN_PROFIT_PERCENT
                 /\ e.losers1 = e.losers0
                 /\ e.winners1 > e.winners0
            /\ (e.flatten /\ ~isProfit) =>
                 /\ e.losers1 = e.losers0 + size * MAX_LOSS_PERCENT
                 /\ e.winners1 = e.winners0
                 /\ e.losers1 > e.losers0
            /\ ~e.flatten => (e.winners1 = e.winners0 /\ e.losers1 = e.losers0)
            /\ i > 1 => (e.winners0 = trace[i-1].winners1
                         /\ e.losers0 = trace[i-1].losers1)
    /\ Len(trace) > 0 => /\ winners = trace[Len(trace)].winners1
                         /\ losers = trace[Len(trace)].losers1

\* The two scenarios in one invocation: +50 shares bought at $100 and priced
\* $102 add 50 to winners, +50 shares bought at $100 and priced $98.50 add 50
\* to losers.
C3_Witness ==
  /\ lastOp = "handle_data"
  /\ \E i, j \in 1..Len(trace) :
       /\ positions[trace[i].security] = [amount |-> 50, cost_basis |-> 200]
       /\ data[trace[i].security] = 204
       /\ trace[i].flatten
       /\ trace[i].winners1 = trace[i].winners0 + 50
       /\ positions[trace[j].security] = [amount |-> 50, cost_basis |-> 200]
       /\ data[trace[j].security] = 197
       /\ trace[j].flatten
       /\ trace[j].losers1 = trace[j].losers0 + 50

\* C4. Counter monotonicity: winners and losers are zero after initialize and
\* no step of the run (recompute, entry step, risk check, fill, day end)
\* decreases either of them.
C4_Monotone ==
  /\ winners = 0 /\ losers = 0
  /\ [][winners' >= winners /\ losers' >= losers]_vars

\* Both counters have grown, winners twice.
C4_Witness == winners >= 100 /\ losers >= 50

\* C5. Entry orders: generate_entries issues exactly one order_target_value of
\* +TRADE_SIZE for each buy-list security without a position, one of
\* -TRADE_SIZE for each sell-list security without a position, and nothing else.
C5_EntryOrders ==
  lastOp = "generate_entries" =>
    LET expected ==
          {Order(s, "order_target_value", TRADE_SIZE) :
             s \in Elems(buy) \ DOMAIN positions}
          \cup {Order(s, "order_target_value", 0 - TRADE_SIZE) :
                  s \in Elems(sell) \ DOMAIN positions}
    IN /\ Elems(orders) = expected
       /\ Len(orders) = Cardinality(expected)

\* An entry step that orders one listed security and skips another that
\* already holds a position.
C5_Witness ==
  /\ lastOp = "generate_entries"
  /\ Len(orders) = 1
  /\ \E s \in DOMAIN positions : Listed(s) /\ ~Ordered(s)

\* C6. Entry idempotence: when generate_entries runs again on the same day
\* (the lists unchanged, fills and risk checks possibly in between), the rerun
\* issues no order for a security that held a position after the earlier run.
C6_EntryIdempotence ==
  (lastOp = "generate_entries" /\ rerun) =>
    \A s \in heldBefore : ~Ordered(s)

\* A rerun on a day whose earlier run left a listed security holding a
\* position, and which still orders another security.
C6_Witness ==
  /\ lastOp = "generate_entries" /\ rerun
  /\ \E s \in heldBefore : Listed(s)
  /\ Len(orders) > 0

\* C7. One-way OPEN -> FLATTENED within a day: an entry step issues no order
\* for a security the risk check has flattened since the last recompute.
C7_NoEntryAfterFlatten ==
  lastOp = "generate_entries" =>
    \A i \in 1..Len(orders) : orders[i].security \notin flattened

\* An entry step that issues an order on a day on which a position has already
\* been flattened.
C7_Witness ==
  /\ lastOp = "generate_entries"
  /\ flattened # {}
  /\ Len(orders) > 0

\* C8. The lists are frozen between recomputes: a step that changes buy or
\* sell is a before_trading_start; generate_entries, check_profit_loss and the
\* host's steps leave both as they were.
C8_ListsFrozen ==
  [][(buy' # buy \/ sell' # sell) => lastOp' = "before_trading_start"]_vars

\* A risk check that follows the day's entry step and reads non-empty lists.
C8_Witness ==
  /\ lastOp = "handle_data"
  /\ entered
  /\ Len(buy) > 0 /\ Len(sell) > 0
  /\ Len(trace) > 0

\* C9 as stated. A position whose current price is zero or missing is skipped
\* for the tick: the invocation does not abort, issues no order for it and
\* leaves the counters alone for it, and every other open position is
\* evaluated.
C9_ZeroPriceIsolation ==
  lastOp = "handle_data" =>
    \A s \in DOMAIN positions :
      (data[s] = 0 \/ data[s] = NaN) =>
        /\ ~raised
        /\ ~Ordered(s)
        /\ \A i \in 1..Len(trace) :
             trace[i].security = s =>
               /\ trace[i].winners1 = trace[i].winners0
               /\ trace[i].losers1 = trace[i].losers0
        /\ \A o \in DOMAIN positions \ {s} : Evaluated(o)

\* C10. Signal flags: in the rows before_trading_start reads, buy is true iff
\* price < lower_band and sell iff price > upper_band, the percentages are
\* (lower_band - price)*100/price and (price - upper_band)*100/price, no row
\* with lower_band <= upper_band has both flags, the lists hold exactly the
\* flagged securities, and the two lists share no security.
C10_SignalFlags ==
  /\ lastOp = "before_trading_start" =>
       \A s \in DOMAIN pipe :
         LET row == pipe[s]
         IN /\ row.buy <=> row.price < row.lower_band
            /\ row.sell <=> row.price > row.upper_band
            /\ row.buy_percent = <<(row.lower_band - row.price) * 100, row.price>>
            /\ row.sell_percent = <<(row.price - row.upper_band) * 100, row.price>>
            /\ row.lower_band <= row.upper_band => ~(row.buy /\ row.sell)
            /\ row.buy <=> s \in Elems(buy)
            /\ row.sell <=> s \in Elems(sell)
  /\ lastOp = "before_trading_start" =>
       Elems(buy) \cup Elems(sell) \subseteq DOMAIN pipe
  /\ Elems(buy) \cap Elems(sell) = {}

\* The scenario price = $95, lower_band = $100, upper_band = $110 gives a buy
\* and no sell, next to a row on the lower band that gives neither.
C10_Witness ==
  /\ lastOp = "before_trading_start"
  /\ \E s, u \in DOMAIN pipe :
       /\ pipe[s].price = 190 /\ pipe[s].lower_band = 200
       /\ pipe[s].upper_band = 220
       /\ pipe[s].buy /\ ~pipe[s].sell
       /\ buy = <<s>>
       /\ pipe[u].price = pipe[u].lower_band
       /\ ~pipe[u].buy /\ ~pipe[u].sell

\* C11. Universe bound: the snapshot a recompute reads has at most NUM_SYMBOLS
\* members, each a member of the base universe with sector SECTOR_CODE; the
\* buy and sell lists lie inside it; and when fewer than NUM_SYMBOLS
\* instruments qualify the snapshot is all of them.
C11_UniverseBound ==
  lastOp = "before_trading_start" =>
    LET snapshot == DOMAIN pipe
        qualifying == {i \in Instruments :
                         /\ i \in fundamentals.base
                         /\ fundamentals.sector[i] = SECTOR_CODE}
    IN /\ Cardinality(snapshot) <= NUM_SYMBOLS
       /\ snapshot \subseteq qualifying
       /\ Elems(buy) \cup Elems(sell) \subseteq snapshot
       /\ Cardinality(qualifying) < NUM_SYMBOLS => snapshot = qualifying

\* More than NUM_SYMBOLS instruments qualify, the snapshot keeps NUM_SYMBOLS of
\* them and one of those is on the buy list.
C11_Witness ==
  /\ lastOp = "before_trading_start"
  /\ Cardinality({i \in Instruments :
                    /\ i \in fundamentals.base
                    /\ fundamentals.sector[i] = SECTOR_CODE}) > NUM_SYMBOLS
  /\ Cardinality(DOMAIN pipe) = NUM_SYMBOLS
  /\ Len(buy) > 0

\* C12 as stated. Each position is counted once: of two consecutive risk
\* checks (no fill in between, so the positions are the same and still open),
\* the second issues no flatten order, and so adds nothing to the counters,
\* for a security the first has flattened. Taken over the ticks whose prices
\* are all positive, where the decision rests on the profit and loss rule alone.
C12_CountedOnce ==
  [][(/\ lastOp = "handle_data" /\ lastOp' = "handle_data"
      /\ \A s \in DOMAIN data : data[s] > 0
      /\ \A s \in DOMAIN data' : data'[s] > 0) =>
       \A i \in 1..Len(orders), j \in 1..Len(orders') :
         orders[i].security # orders'[j].security]_vars

\* C13. At most one order per security per invocation: no callback issues two
\* order requests for the same security; in particular an entry step never
\* asks for both +TRADE_SIZE and -TRADE_SIZE of one security.
C13_OneOrderPerSecurity ==
  \A i, j \in 1..Len(orders) :
    orders[i].security = orders[j].security => i = j

\* An entry step that buys one security and sells another.
C13_Witness ==
  /\ lastOp = "generate_entries"
  /\ \E i, j \in 1..Len(orders) :
       /\ orders[i].target = TRADE_SIZE
       /\ orders[j].target = 0 - TRADE_SIZE

\* C14. The lists are published before they are read: whenever
\* check_profit_loss or generate_entries has run, the session is one that a
\* before_trading_start opened, and context.buy and context.sell are assigned.
C14_PublishedBeforeRead ==
  lastOp \in {"handle_data", "generate_entries"} =>
    (assigned /\ session = "open")

\* An entry step on a later day: the counters have grown on an earlier day,
\* nothing has been flattened since this day's recompute.
C14_Witness ==
  /\ lastOp = "generate_entries"
  /\ assigned
  /\ winners + losers > 0
  /\ flattened = {}
  /\ Len(orders) > 0

\* C15. Counter emission: a risk check records Winners and Losers once per
\* flatten decision, with the values the counters have after that decision's
\* update, in the order of the decisions; WinLoseRatio follows exactly when
\* losers is then non-zero, so its divisor is never zero; a tick without a
\* flatten, and every other callback, records nothing.
C15_Emission ==
  LET named(n) == {i \in 1..Len(recorded) : recorded[i].name = n}
      flattens == {i \in 1..Len(trace) : trace[i].flatten}
  IN /\ lastOp # "handle_data" => recorded = <<>>
     /\ lastOp = "handle_data" =>
          /\ Cardinality(named("Winners")) = Len(orders)
          /\ Cardinality(named("Losers")) = Len(orders)
     /\ Cardinality(named("Winners")) = Cardinality(flattens)
     /\ \A i \in named("Winners") :
          /\ i + 1 \in named("Losers")
          /\ \E k \in flattens :
               /\ Cardinality({m \in flattens : m < k})
                    = Cardinality({m \in named("Winners") : m < i})
               /\ recorded[i].num = trace[k].winners1
               /\ recorded[i + 1].num = trace[k].losers1
          /\ recorded[i + 1].num # 0 <=> i + 2 \in named("WinLoseRatio")
     /\ \A i \in named("Losers") : i - 1 \in named("Winners")
     /\ \A i \in named("WinLoseRatio") :
          /\ recorded[i].den # 0
          /\ i - 1 \in named("Losers")
          /\ recorded[i].den = recorded[i - 1].num
          /\ recorded[i].num = recorded[i - 2].num

\* Two flatten decisions in one tick: the first, a profit exit with losers
\* still zero, records two values; the second, a loss exit, records three.
C15_Witness ==
  /\ lastOp = "handle_data"
  /\ Len(orders) = 2
  /\ Len(recorded) = 5
  /\ recorded[2].num = 0
  /\ recorded[5].name = "WinLoseRatio"

====
